---- MODULE Spec2Model ----
(***************************************************************************)
(* Model of the nanobot simulation-and-alerting engine:                    *)
(*   nanobot_simulator.py  NanobotSimulator (loop, update_bot,             *)
(*                         check_alerts, send_bot_update)                  *)
(*   websocket_manager.py  ConnectionManager (connect/disconnect/send)     *)
(*   main_nanobot_code.py  resolve_alert, update_nanobot, startup/shutdown *)
(*   models.py             column defaults                                 *)
(*                                                                         *)
(* Floats are kept in fixed point:                                         *)
(*   glucose x1, heart_rate x1, temperature x10, troponin x1000,           *)
(*   oxygen x10, ph_level x100, position x1; blood pressure is an integer  *)
(*   in the code already.  A threshold 37.8 is therefore 378, 0.04 is 40,  *)
(*   92 (oxygen) is 920.                                                   *)
(*                                                                         *)
(* asyncio runs one coroutine at a time: a coroutine keeps the processor   *)
(* until it reaches an await that really suspends (websocket send_json,    *)
(* asyncio.sleep).  Loop steps between two suspension points are therefore *)
(* never interleaved with other coroutines: every action of another        *)
(* coroutine is guarded by AllSuspended.                                   *)
(***************************************************************************)
EXTENDS Integers, Sequences, FiniteSets, TLC

\* ------------------------------------------------------------ bounds
NumSensors == 2
NumPatients == 2
NumConns == 2
NumLoops == 2
MaxBatches == 2
MaxWalkTicks == 2
MaxResolves == 2

Sensors == 1..NumSensors
Patients == 1..NumPatients
Conns == 1..NumConns
LoopIds == 1..NumLoops

\* ------------------------------------------------------------ helpers
Max(a, b) == IF a > b THEN a ELSE b
Min(a, b) == IF a < b THEN a ELSE b

RECURSIVE SeqSum(_)
SeqSum(s) == IF s = <<>> THEN 0 ELSE Head(s) + SeqSum(Tail(s))

SeqToSet(s) == {s[i] : i \in 1..Len(s)}

\* a mutant of RemoveFirst: drops the head of the list, as pop(0) would
RemoveHead(s, x) == Tail(s)

\* list.remove(x): drops the first occurrence of x (the caller checks membership)
RemoveFirst(s, x) ==
    LET k == CHOOSE i \in 1..Len(s) : s[i] = x /\ \A j \in 1..(i - 1) : s[j] # x
    IN  SubSeq(s, 1, k - 1) \o SubSeq(s, k + 1, Len(s))

\* ------------------------------------------------------------ clamp domains
GlucoseMin == 70
GlucoseMax == 180
HeartRateMin == 60
HeartRateMax == 100
TemperatureMin == 360
TemperatureMax == 380
TroponinMin == 0
TroponinMax == 100
OxygenMin == 900
OxygenMax == 1000
PhMin == 735
PhMax == 745
SysMin == 100
SysMax == 140
DiaMin == 60
DiaMax == 90
PosMin == 0
PosMax == 100

\* max(lo, min(hi, v))
Clamp(lo, hi, v) == Max(lo, Min(hi, v))

\* models.py column defaults of BotMetric
DefaultMetrics ==
    [glucose |-> 95, heart_rate |-> 72, temperature |-> 366, troponin |-> 10,
     oxygen |-> 980, ph_level |-> 740, blood_pressure_sys |-> 120,
     blood_pressure_dia |-> 80, health_score |-> 100, risk_level |-> "Low"]

\* ------------------------------------------------------------ Random-walk updater
\* One vector of the random draws of update_bot.  The code draws every
\* perturbation independently from a symmetric range; the model draws each
\* from {-max, 0, +max} of that range, the signs grouped in four directions:
\*   g: glucose, temperature, ph_level     c: heart_rate, troponin, pressure
\*   o: oxygen                             p: position (x and y in opposite
\*                                            directions)
\* and r, whether random.random() < 0.3 saved a reading.
Draw(g, c, o, p, r) ==
    [glucose |-> 3 * g, heart_rate |-> 2 * c, temperature |-> 1 * g,
     troponin |-> 2 * c, oxygen |-> 5 * o, ph_level |-> 2 * g,
     blood_pressure_sys |-> 3 * c, blood_pressure_dia |-> 2 * c,
     x |-> 2 * p, y |-> (0 - 2) * p, reading |-> r]

Signs == {0 - 1, 0, 1}

\* every combination of the three metric directions; a reading is saved on the
\* draws that move the position up
WalkDraws == {Draw(g, c, o, p, p = 1) : g \in Signs, c \in Signs, o \in Signs,
                                       p \in {0 - 1, 1}}

\* every metric towards its alert threshold, and back
DrawUp == Draw(1, 1, 0 - 1, 1, FALSE)
DrawDown == Draw(0 - 1, 0 - 1, 1, 0 - 1, FALSE)
LoopDraws == {DrawUp, DrawDown}

\* update_bot lines 68-91 with the lower clamps removed (a mutant of Perturb)
PerturbNoLowerClamp(m, d) ==
    [m EXCEPT !.glucose = Min(GlucoseMax, m.glucose + d.glucose),
              !.heart_rate = Min(HeartRateMax, m.heart_rate + d.heart_rate),
              !.temperature = Min(TemperatureMax, m.temperature + d.temperature),
              !.troponin = Min(TroponinMax, m.troponin + d.troponin),
              !.oxygen = Min(OxygenMax, m.oxygen + d.oxygen),
              !.ph_level = Min(PhMax, m.ph_level + d.ph_level),
              !.blood_pressure_sys = Min(SysMax, m.blood_pressure_sys + d.blood_pressure_sys),
              !.blood_pressure_dia = Min(DiaMax, m.blood_pressure_dia + d.blood_pressure_dia)]

\* update_bot lines 68-91 with the clamps removed (a mutant of Perturb)
PerturbNoClamp(m, d) ==
    [m EXCEPT !.glucose = m.glucose + d.glucose,
              !.heart_rate = m.heart_rate + d.heart_rate,
              !.temperature = m.temperature + d.temperature,
              !.troponin = m.troponin + d.troponin,
              !.oxygen = m.oxygen + d.oxygen,
              !.ph_level = m.ph_level + d.ph_level,
              !.blood_pressure_sys = m.blood_pressure_sys + d.blood_pressure_sys,
              !.blood_pressure_dia = m.blood_pressure_dia + d.blood_pressure_dia]

\* update_bot lines 68-91: metric += draw, then clamp
Perturb(m, d) ==
    [m EXCEPT !.glucose = Clamp(GlucoseMin, GlucoseMax, m.glucose + d.glucose),
              !.heart_rate = Clamp(HeartRateMin, HeartRateMax, m.heart_rate + d.heart_rate),
              !.temperature = Clamp(TemperatureMin, TemperatureMax, m.temperature + d.temperature),
              !.troponin = Clamp(TroponinMin, TroponinMax, m.troponin + d.troponin),
              !.oxygen = Clamp(OxygenMin, OxygenMax, m.oxygen + d.oxygen),
              !.ph_level = Clamp(PhMin, PhMax, m.ph_level + d.ph_level),
              !.blood_pressure_sys = Clamp(SysMin, SysMax, m.blood_pressure_sys + d.blood_pressure_sys),
              !.blood_pressure_dia = Clamp(DiaMin, DiaMax, m.blood_pressure_dia + d.blood_pressure_dia)]

\* ------------------------------------------------------------ Health scorer
\* a mutant of HealthScore: the heart-rate group misses its penalty
HealthScoreNoHeartRate(m) ==
    LET s0 == 100
        s1 == IF m.glucose > 140 THEN s0 - 15
              ELSE IF m.glucose > 120 THEN s0 - 5 ELSE s0
        s3 == IF m.temperature > 378 THEN s1 - 10
              ELSE IF m.temperature < 360 THEN s1 - 5 ELSE s1
        s4 == IF m.troponin > 40 THEN s3 - 30 ELSE s3
        s5 == IF m.oxygen < 920 THEN s4 - 20 ELSE s4
    IN  Max(0, s5)

\* update_bot lines 94-108
HealthScore(m) ==
    LET s0 == 100
        s1 == IF m.glucose > 140 THEN s0 - 15
              ELSE IF m.glucose > 120 THEN s0 - 5 ELSE s0
        s2 == IF m.heart_rate > 90 THEN s1 - 10
              ELSE IF m.heart_rate < 50 THEN s1 - 15 ELSE s1
        s3 == IF m.temperature > 378 THEN s2 - 10
              ELSE IF m.temperature < 360 THEN s2 - 5 ELSE s2
        s4 == IF m.troponin > 40 THEN s3 - 30 ELSE s3
        s5 == IF m.oxygen < 920 THEN s4 - 20 ELSE s4
    IN  Max(0, s5)

\* a mutant of RiskLevel: the Critical/High boundary is off by one
RiskLevelOffByOne(score) ==
    IF score <= 50 THEN "Critical"
    ELSE IF score < 70 THEN "High"
    ELSE IF score < 85 THEN "Moderate"
    ELSE "Low"

\* update_bot lines 111-118
RiskLevel(score) ==
    IF score < 50 THEN "Critical"
    ELSE IF score < 70 THEN "High"
    ELSE IF score < 85 THEN "Moderate"
    ELSE "Low"

\* update_bot lines 93-118: score and risk level stored on the metrics row
Score(m) ==
    LET hs == HealthScore(m)
    IN  [m EXCEPT !.health_score = hs, !.risk_level = RiskLevel(hs)]

\* ------------------------------------------------------------ Alert evaluator
\* a mutant of AlertCandidates: the low-glucose rule fires at <= 75
AlertCandidatesLowGlucose75(m) ==
    (IF m.glucose > 140
       THEN << [type |-> IF m.glucose > 180 THEN "critical" ELSE "warning",
                metric |-> "glucose", value |-> m.glucose, threshold |-> 140,
                message |-> "High glucose level"] >>
     ELSE IF m.glucose <= 75
       THEN << [type |-> "warning", metric |-> "glucose", value |-> m.glucose,
                threshold |-> 70, message |-> "Low glucose level"] >>
     ELSE << >>)
    \o
    (IF m.heart_rate > 100
       THEN << [type |-> "critical", metric |-> "heart_rate", value |-> m.heart_rate,
                threshold |-> 100, message |-> "Tachycardia"] >>
     ELSE IF m.heart_rate < 50
       THEN << [type |-> "critical", metric |-> "heart_rate", value |-> m.heart_rate,
                threshold |-> 50, message |-> "Bradycardia"] >>
     ELSE << >>)
    \o
    (IF m.troponin > 40
       THEN << [type |-> "critical", metric |-> "troponin", value |-> m.troponin,
                threshold |-> 40,
                message |-> "Elevated troponin - Possible cardiac event"] >>
     ELSE << >>)
    \o
    (IF m.oxygen < 920
       THEN << [type |-> IF m.oxygen < 880 THEN "critical" ELSE "warning",
                metric |-> "oxygen", value |-> m.oxygen, threshold |-> 920,
                message |-> "Low oxygen saturation"] >>
     ELSE << >>)

\* check_alerts lines 153-209: the list `alerts` of candidate dicts, in the
\* order the code appends them
AlertCandidates(m) ==
    (IF m.glucose > 140
       THEN << [type |-> IF m.glucose > 180 THEN "critical" ELSE "warning",
                metric |-> "glucose", value |-> m.glucose, threshold |-> 140,
                message |-> "High glucose level"] >>
     ELSE IF m.glucose < 70
       THEN << [type |-> "warning", metric |-> "glucose", value |-> m.glucose,
                threshold |-> 70, message |-> "Low glucose level"] >>
     ELSE << >>)
    \o
    (IF m.heart_rate > 100
       THEN << [type |-> "critical", metric |-> "heart_rate", value |-> m.heart_rate,
                threshold |-> 100, message |-> "Tachycardia"] >>
     ELSE IF m.heart_rate < 50
       THEN << [type |-> "critical", metric |-> "heart_rate", value |-> m.heart_rate,
                threshold |-> 50, message |-> "Bradycardia"] >>
     ELSE << >>)
    \o
    (IF m.troponin > 40
       THEN << [type |-> "critical", metric |-> "troponin", value |-> m.troponin,
                threshold |-> 40,
                message |-> "Elevated troponin - Possible cardiac event"] >>
     ELSE << >>)
    \o
    (IF m.oxygen < 920
       THEN << [type |-> IF m.oxygen < 880 THEN "critical" ELSE "warning",
                metric |-> "oxygen", value |-> m.oxygen, threshold |-> 920,
                message |-> "Low oxygen saturation"] >>
     ELSE << >>)

\* ------------------------------------------------------------ state
VARIABLES
    bots,               \* table nanobots: [Sensors -> row]
    metrics,            \* table bot_metrics: [Sensors -> row], one row per bot
    readings,           \* table bot_readings, in insertion order
    alerts,             \* table alerts, in insertion order; the id is the index
    active_connections, \* ConnectionManager.active_connections: patient -> list
    ws,                 \* the websocket objects: [Conns -> [state, patient, disc]],
                        \* disc the outcome of disconnect_patient for a
                        \* websocket that was not in the patient's list
    simulation_running, \* NanobotSimulator.simulation_running
    loop,               \* the start_simulation coroutines: [LoopIds -> frame]
    now,                \* datetime.utcnow(), a logical clock
    published,          \* messages handed to send_to_patient in the current batch
    delivered,          \* messages a websocket accepted: set of [conn, type, bot, patient]
    fn                  \* input and results of the pure functions (SpecFn)

vars == <<bots, metrics, readings, alerts, active_connections, ws,
          simulation_running, loop, now, published, delivered, fn>>

NoMsg == [type |-> "none", bot |-> 0, patient |-> 0, metric |-> "none"]

\* a coroutine frame of start_simulation, before the task has run
IdleFrame ==
    [pc |-> "idle",      \* idle, while, for, alerts, send, sending, sleep, done
     batch |-> << >>,    \* the bots of update_all_bots still to process
     bot |-> 0,          \* the bot of the running update_bot
     cands |-> << >>,    \* check_alerts: the candidates still to process
     msg |-> NoMsg,      \* send_to_patient: the message
     i |-> 0,            \* send_to_patient: the list iterator's index
     conn |-> 0,         \* send_to_patient: the connection of the pending send_json
     start |-> << >>,    \* the subscriber list when send_to_patient was called
     got |-> {},         \* the connections that accepted the message in this call
     failed |-> {},      \* the connections whose send_json raised in this call
     ret |-> "none",     \* where send_to_patient returns to
     nbatch |-> 0,       \* batches begun
     sleep |-> 0,        \* the pending asyncio.sleep's duration
     fetched |-> << >>,  \* the bots the query of the current batch returned
     caught |-> "none",  \* the except clause that caught this batch's exception
     errbot |-> 0,       \* the bot whose update_bot raised it
     gone |-> FALSE]     \* send_to_patient: the iterated list left the registry

\* the points where a coroutine is really suspended (or does not run)
SuspendedPcs == {"idle", "sending", "sleep", "done"}
AllSuspended == \A l \in LoopIds : loop[l].pc \in SuspendedPcs

\* bot.patient_id of the deployed sensors
Owner(s) == ((s - 1) % NumPatients) + 1

\* ------------------------------------------------------------ initial states
\* Stored metric rows the random walk reaches from the defaults, each with the
\* unresolved alerts its first threshold crossing created on the way.
AlertRow(s, a) ==
    [patient_id |-> Owner(s), bot_id |-> s, alert_type |-> a.type, metric |-> a.metric,
     value |-> a.value, threshold |-> a.threshold, message |-> a.message,
     is_resolved |-> FALSE, resolved_at |-> 0]

ProfileDefault == [m |-> DefaultMetrics, crossed |-> << >>]

\* just inside every threshold: the next tick can breach
ProfileNear ==
    [m |-> Score([DefaultMetrics EXCEPT !.glucose = 139, !.heart_rate = 89,
                    !.temperature = 378, !.troponin = 39, !.oxygen = 924]),
     crossed |-> << >>]

\* troponin and oxygen one draw from their thresholds, the rest at the defaults
ProfileCardiac ==
    [m |-> Score([DefaultMetrics EXCEPT !.troponin = 39, !.oxygen = 924]),
     crossed |-> << >>]

\* every metric on its lower clamp; oxygen crossed 92 on the way down
ProfileLow ==
    [m |-> Score([glucose |-> GlucoseMin, heart_rate |-> HeartRateMin,
                  temperature |-> TemperatureMin, troponin |-> TroponinMin,
                  oxygen |-> OxygenMin, ph_level |-> PhMin,
                  blood_pressure_sys |-> SysMin, blood_pressure_dia |-> DiaMin,
                  health_score |-> 100, risk_level |-> "Low"]),
     crossed |-> AlertCandidates([DefaultMetrics EXCEPT !.oxygen = 919])]

\* every metric on its upper clamp; glucose and troponin crossed on the way up
ProfileHigh ==
    [m |-> Score([glucose |-> GlucoseMax, heart_rate |-> HeartRateMax,
                  temperature |-> TemperatureMax, troponin |-> TroponinMax,
                  oxygen |-> OxygenMax, ph_level |-> PhMax,
                  blood_pressure_sys |-> SysMax, blood_pressure_dia |-> DiaMax,
                  health_score |-> 100, risk_level |-> "Low"]),
     crossed |-> AlertCandidates([DefaultMetrics EXCEPT !.glucose = 142, !.troponin = 41])]

WalkProfiles == {ProfileDefault, ProfileNear, ProfileCardiac, ProfileLow, ProfileHigh}
LoopProfiles == {ProfileCardiac}

RECURSIVE InitAlerts(_, _)
InitAlerts(prof, s) ==
    IF s > NumSensors THEN << >>
    ELSE [k \in 1..Len(prof[s].crossed) |-> AlertRow(s, prof[s].crossed[k])]
         \o InitAlerts(prof, s + 1)

BotRow(s, st, pos) ==
    [patient_id |-> Owner(s), status |-> st, battery_level |-> 100,
     firmware_version |-> "1.0.0",
     current_x |-> pos, current_y |-> pos, last_active |-> 0]

NoFn == [m |-> DefaultMetrics, score |-> 0 - 1, risk |-> "none",
         cands |-> << >>, checked |-> FALSE]

\* the connection registry and the loop right after construction
InitIdle ==
    /\ simulation_running = FALSE
    /\ loop = [l \in LoopIds |-> IdleFrame]
    /\ now = 0
    /\ published = << >>
    /\ delivered = {}

\* no websocket has connected yet
InitNoConnections ==
    /\ active_connections = << >>
    /\ ws = [c \in Conns |-> [state |-> "new", patient |-> 0, disc |-> "none"]]

\* every websocket has connected, websocket c to patient ConnPatient(c)
ConnPatient(c) == ((c - 1) % NumPatients) + 1

RECURSIVE ConnsFrom(_, _)
ConnsFrom(p, c) ==
    IF c > NumConns THEN << >>
    ELSE (IF ConnPatient(c) = p THEN << c >> ELSE << >>) \o ConnsFrom(p, c + 1)

InitAllConnected ==
    /\ active_connections =
         [p \in {q \in Patients : ConnsFrom(q, 1) # << >>} |-> ConnsFrom(p, 1)]
    /\ ws = [c \in Conns |-> [state |-> "open", patient |-> ConnPatient(c),
                               disc |-> "none"]]

\* every websocket has connected and the peer of the first has gone away since
InitPeerGone ==
    /\ active_connections =
         [p \in {q \in Patients : ConnsFrom(q, 1) # << >>} |-> ConnsFrom(p, 1)]
    /\ ws = [c \in Conns |-> [state |-> IF c = 1 THEN "lost" ELSE "open",
                               patient |-> ConnPatient(c), disc |-> "none"]]

InitStore(profs, statuses, positions) ==
    \E prof \in profs, st \in statuses, pos \in positions :
        /\ bots = [s \in Sensors |-> BotRow(s, st[s], pos)]
        /\ metrics = [s \in Sensors |-> prof[s].m]
        /\ alerts = InitAlerts(prof, 1)
        /\ readings = << >>

AllActive == [s \in Sensors |-> "active"]
OnlyFirstActive == [s \in Sensors |-> IF s = 1 THEN "active" ELSE "inactive"]
OneActive(a) == [s \in Sensors |-> IF s = a THEN "active" ELSE "inactive"]

\* Spec: the loop and resolve_alert requests, with or without subscribers
Init ==
    /\ InitIdle
    /\ InitNoConnections \/ InitAllConnected
    /\ InitStore([Sensors -> LoopProfiles], {AllActive}, {0})
    /\ fn = NoFn

\* ------------------------------------------------------------ Simulation loop
SetLoop(l, f) == loop' = [loop EXCEPT ![l] = f]

\* start_simulation lines 22-26: the task's first step sets the flag and
\* reaches the while
StartSimulation(l) ==
    /\ AllSuspended
    /\ loop[l].pc = "idle"
    /\ simulation_running' = TRUE
    /\ SetLoop(l, [loop[l] EXCEPT !.pc = "while"])
    /\ UNCHANGED <<bots, metrics, readings, alerts, active_connections, ws, now,
                   published, delivered, fn>>

\* start_simulation lines 30/33: asyncio.sleep returns
LoopWake(l, maxBatches) ==
    /\ AllSuspended
    /\ loop[l].pc = "sleep"
    /\ (simulation_running => loop[l].nbatch < maxBatches)
    /\ SetLoop(l, [loop[l] EXCEPT !.pc = "while", !.sleep = 0])
    /\ UNCHANGED <<bots, metrics, readings, alerts, active_connections, ws,
                   simulation_running, now, published, delivered, fn>>

\* a mutant of ActiveFrom: the query misses its status filter
RECURSIVE ActiveFromAnyStatus(_, _)
ActiveFromAnyStatus(tbl, s) ==
    IF s > NumSensors THEN << >> ELSE << s >> \o ActiveFromAnyStatus(tbl, s + 1)

\* the active bots, in primary-key order
RECURSIVE ActiveFrom(_, _)
ActiveFrom(tbl, s) ==
    IF s > NumSensors THEN << >>
    ELSE (IF tbl[s].status = "active" THEN << s >> ELSE << >>) \o ActiveFrom(tbl, s + 1)

\* a mutant of LoopWhile: the while does not test simulation_running
LoopWhileIgnoresFlag(l) ==
    /\ loop[l].pc = "while"
    /\ SetLoop(l, [loop[l] EXCEPT !.pc = "for", !.batch = ActiveFrom(bots, 1),
                                  !.fetched = ActiveFrom(bots, 1),
                                  !.caught = "none", !.errbot = 0,
                                  !.nbatch = @ + 1])
    /\ now' = now + 1
    /\ published' = << >>
    /\ UNCHANGED <<bots, metrics, readings, alerts, active_connections, ws,
                   simulation_running, delivered, fn>>

\* start_simulation line 27 and update_all_bots lines 42-45: the while test;
\* when it holds, a batch begins with the query of the active bots
LoopWhile(l) ==
    /\ loop[l].pc = "while"
    /\ IF simulation_running
         THEN /\ SetLoop(l, [loop[l] EXCEPT !.pc = "for",
                                            !.batch = ActiveFrom(bots, 1),
                                            !.fetched = ActiveFrom(bots, 1),
                                            !.caught = "none", !.errbot = 0,
                                            !.nbatch = @ + 1])
              /\ now' = now + 1
              /\ published' = << >>
         ELSE /\ SetLoop(l, [loop[l] EXCEPT !.pc = "done"])
              /\ UNCHANGED <<now, published>>
    /\ UNCHANGED <<bots, metrics, readings, alerts, active_connections, ws,
                   simulation_running, delivered, fn>>

\* update_all_bots lines 47-53 and start_simulation line 30: the for loop is
\* exhausted, the session is closed and the loop sleeps update_interval
EndBatch(l) ==
    /\ loop[l].pc = "for"
    /\ loop[l].batch = << >>
    /\ SetLoop(l, [loop[l] EXCEPT !.pc = "sleep", !.sleep = 2, !.bot = 0])
    /\ UNCHANGED <<bots, metrics, readings, alerts, active_connections, ws,
                   simulation_running, now, published, delivered, fn>>

\* a mutant of AbortBatch: the exception is not caught and ends the task
AbortBatchEndsTask(f) ==
    [f EXCEPT !.pc = "done", !.sleep = 0, !.batch = << >>, !.bot = 0, !.cands = << >>,
              !.msg = NoMsg, !.i = 0, !.conn = 0, !.ret = "none",
              !.caught = "none", !.errbot = f.bot]

\* an exception raised under update_bot (in the store, in the arithmetic on a
\* row without values, in the list lookup or remove of send_to_patient) leaves
\* update_bot and the for loop; update_all_bots lines 50-53 catch it, close
\* the session and return, and start_simulation line 30 sleeps update_interval
AbortBatch(f) ==
    [f EXCEPT !.pc = "sleep", !.sleep = 2, !.batch = << >>, !.bot = 0, !.cands = << >>,
              !.msg = NoMsg, !.i = 0, !.conn = 0, !.ret = "none",
              !.caught = "update_all_bots", !.errbot = f.bot]

\* update_bot lines 121-128 with a battery that drains (a mutant of MoveBot)
MoveBotDrainsBattery(b, d) ==
    [b EXCEPT !.current_x = Clamp(PosMin, PosMax, b.current_x + d.x),
              !.current_y = Clamp(PosMin, PosMax, b.current_y + d.y),
              !.last_active = now,
              !.battery_level = Max(0, b.battery_level - 1)]

\* update_bot lines 121-128
MoveBot(b, d) ==
    [b EXCEPT !.current_x = Clamp(PosMin, PosMax, b.current_x + d.x),
              !.current_y = Clamp(PosMin, PosMax, b.current_y + d.y),
              !.last_active = now]

\* update_bot lines 59-143 and check_alerts lines 153-209: one bot's metrics,
\* score, position and reading are written and committed, and check_alerts
\* builds its candidate list.  For a bot without a bot_metrics row, lines
\* 60-62 construct BotMetric(bot_id=bot.id): the column defaults of models.py
\* are applied by the INSERT, which has not run (autoflush is off and nothing
\* flushes before line 140), so metrics.glucose is None and line 68 raises
\* TypeError; the pending row is dropped when the session is closed.
UpdateBot(l, draws) ==
    /\ loop[l].pc = "for"
    /\ loop[l].batch # << >>
    /\ LET s == Head(loop[l].batch)
       IN  IF s \in DOMAIN metrics
             THEN \E d \in draws :
                    LET m == Score(Perturb(metrics[s], d))
                    IN  /\ metrics' = [metrics EXCEPT ![s] = m]
                        /\ bots' = [bots EXCEPT ![s] = MoveBot(bots[s], d)]
                        /\ readings' = IF d.reading
                                         THEN Append(readings, [bot_id |-> s,
                                                                metric_type |-> "glucose",
                                                                value |-> m.glucose])
                                         ELSE readings
                        /\ SetLoop(l, [loop[l] EXCEPT !.pc = "alerts", !.bot = s,
                                                      !.cands = AlertCandidates(m)])
             ELSE /\ SetLoop(l, AbortBatch([loop[l] EXCEPT !.bot = s]))
                  /\ UNCHANGED <<metrics, bots, readings>>
    /\ UNCHANGED <<alerts, active_connections, ws, simulation_running, now,
                   published, delivered, fn>>

\* the frame of a send_to_patient call that is about to start
CallSend(f, msg, ret) ==
    [f EXCEPT !.pc = "send", !.msg = msg, !.i = 0, !.conn = 0, !.ret = ret, !.got = {}, !.failed = {},
              !.gone = FALSE,
              !.start = IF msg.patient \in DOMAIN active_connections
                          THEN active_connections[msg.patient] ELSE << >>]

\* a mutant of ExistingAlert: the query finds nothing
ExistingAlertNone(tbl, s, m) == {}

\* a mutant of ExistingAlert: the query misses the is_resolved filter
ExistingAlertAnyState(tbl, s, m) ==
    {k \in 1..Len(tbl) : tbl[k].bot_id = s /\ tbl[k].metric = m}

\* check_alerts lines 214-218: the rows the de-duplication query matches
ExistingAlert(tbl, s, m) ==
    {k \in 1..Len(tbl) : tbl[k].bot_id = s /\ tbl[k].metric = m /\ ~tbl[k].is_resolved}

\* check_alerts lines 221-229: the new Alert row
NewAlert(s, a) ==
    [patient_id |-> bots[s].patient_id, bot_id |-> s, alert_type |-> a.type,
     metric |-> a.metric, value |-> a.value, threshold |-> a.threshold,
     message |-> a.message, is_resolved |-> FALSE, resolved_at |-> 0]

\* check_alerts lines 234-246: the alert message
AlertMsg(s, a) ==
    [type |-> "alert", bot |-> s, patient |-> bots[s].patient_id, metric |-> a.metric]

\* a mutant of CheckAlert: a duplicate is not inserted but is still published
CheckAlertPublishDup(l) ==
    /\ loop[l].pc = "alerts"
    /\ loop[l].cands # << >>
    /\ LET s == loop[l].bot
           a == Head(loop[l].cands)
       IN  /\ alerts' = IF ExistingAlert(alerts, s, a.metric) # {} THEN alerts
                        ELSE Append(alerts, NewAlert(s, a))
           /\ published' = Append(published, AlertMsg(s, a))
           /\ SetLoop(l, CallSend([loop[l] EXCEPT !.cands = Tail(@)], AlertMsg(s, a), "alerts"))
    /\ UNCHANGED <<bots, metrics, readings, active_connections, ws,
                   simulation_running, now, delivered, fn>>

\* a mutant of CheckAlert: the new Alert is stored after the awaited
\* send_to_patient, on the strength of the query made before it (errbot
\* marks the pending insert)
CheckAlertInsertAfterSend(l) ==
    /\ loop[l].pc = "alerts"
    /\ loop[l].cands # << >>
    /\ LET s == loop[l].bot
           a == Head(loop[l].cands)
       IN  IF loop[l].errbot # 0
             THEN /\ alerts' = Append(alerts, NewAlert(s, a))
                  /\ SetLoop(l, [loop[l] EXCEPT !.cands = Tail(@), !.errbot = 0])
                  /\ UNCHANGED published
             ELSE IF ExistingAlert(alerts, s, a.metric) # {}
                    THEN /\ SetLoop(l, [loop[l] EXCEPT !.cands = Tail(@)])
                         /\ UNCHANGED <<alerts, published>>
                    ELSE /\ published' = Append(published, AlertMsg(s, a))
                         /\ SetLoop(l, CallSend([loop[l] EXCEPT !.errbot = s],
                                                AlertMsg(s, a), "alerts"))
                         /\ UNCHANGED alerts
    /\ UNCHANGED <<bots, metrics, readings, active_connections, ws,
                   simulation_running, now, delivered, fn>>

\* a mutant of CheckAlert: a duplicate refreshes the value of the open alert
CheckAlertRefreshesOpen(l) ==
    /\ loop[l].pc = "alerts"
    /\ loop[l].cands # << >>
    /\ LET s == loop[l].bot
           a == Head(loop[l].cands)
       IN  IF ExistingAlert(alerts, s, a.metric) # {}
             THEN /\ alerts' = [alerts EXCEPT
                                  ![CHOOSE k \in ExistingAlert(alerts, s, a.metric) : TRUE].value
                                      = a.value]
                  /\ SetLoop(l, [loop[l] EXCEPT !.cands = Tail(@)])
                  /\ UNCHANGED published
             ELSE /\ alerts' = Append(alerts, NewAlert(s, a))
                  /\ published' = Append(published, AlertMsg(s, a))
                  /\ SetLoop(l, CallSend([loop[l] EXCEPT !.cands = Tail(@)],
                                         AlertMsg(s, a), "alerts"))
    /\ UNCHANGED <<bots, metrics, readings, active_connections, ws,
                   simulation_running, now, delivered, fn>>

\* check_alerts lines 212-246: the next candidate; the query for an unresolved
\* alert of (bot, metric), and unless there is one, the insert, the commit and
\* the call of send_to_patient
CheckAlert(l) ==
    /\ loop[l].pc = "alerts"
    /\ loop[l].cands # << >>
    /\ LET s == loop[l].bot
           a == Head(loop[l].cands)
       IN  IF ExistingAlert(alerts, s, a.metric) # {}
             THEN /\ SetLoop(l, [loop[l] EXCEPT !.cands = Tail(@)])
                  /\ UNCHANGED <<alerts, published>>
             ELSE /\ alerts' = Append(alerts, NewAlert(s, a))
                  /\ published' = Append(published, AlertMsg(s, a))
                  /\ SetLoop(l, CallSend([loop[l] EXCEPT !.cands = Tail(@)],
                                         AlertMsg(s, a), "alerts"))
    /\ UNCHANGED <<bots, metrics, readings, active_connections, ws,
                   simulation_running, now, delivered, fn>>

\* a mutant of SendBotUpdate: the bot_update does not wait for check_alerts
SendBotUpdateBeforeAlerts(l) ==
    /\ loop[l].pc = "alerts"
    /\ LET s == loop[l].bot
           msg == [type |-> "bot_update", bot |-> s, patient |-> bots[s].patient_id,
                   metric |-> "none"]
       IN  /\ published' = Append(published, msg)
           /\ SetLoop(l, CallSend([loop[l] EXCEPT !.batch = Tail(@)], msg, "for"))
    /\ UNCHANGED <<bots, metrics, readings, alerts, active_connections, ws,
                   simulation_running, now, delivered, fn>>

\* update_bot line 146 and send_bot_update lines 251-279: check_alerts has
\* returned; the bot_update message is built and handed to send_to_patient
SendBotUpdate(l) ==
    /\ loop[l].pc = "alerts"
    /\ loop[l].cands = << >>
    /\ LET s == loop[l].bot
           msg == [type |-> "bot_update", bot |-> s, patient |-> bots[s].patient_id,
                   metric |-> "none"]
       IN  /\ published' = Append(published, msg)
           /\ SetLoop(l, CallSend([loop[l] EXCEPT !.batch = Tail(@)], msg, "for"))
    /\ UNCHANGED <<bots, metrics, readings, alerts, active_connections, ws,
                   simulation_running, now, delivered, fn>>

\* ------------------------------------------------------------ store failures
\* update_all_bots line 45: the query of the active bots raises (the store is
\* unavailable); lines 50-53 catch it and the loop sleeps update_interval
QueryFails(l) ==
    /\ loop[l].pc = "while"
    /\ simulation_running
    /\ SetLoop(l, AbortBatch([loop[l] EXCEPT !.fetched = << >>, !.nbatch = @ + 1]))
    /\ now' = now + 1
    /\ published' = << >>
    /\ UNCHANGED <<bots, metrics, readings, alerts, active_connections, ws,
                   simulation_running, delivered, fn>>

\* update_bot lines 59-140: a query or the commit of one bot's update raises;
\* nothing of that update is stored
UpdateBotFails(l) ==
    /\ loop[l].pc = "for"
    /\ loop[l].batch # << >>
    /\ SetLoop(l, AbortBatch([loop[l] EXCEPT !.bot = Head(loop[l].batch)]))
    /\ UNCHANGED <<bots, metrics, readings, alerts, active_connections, ws,
                   simulation_running, now, published, delivered, fn>>

\* check_alerts lines 214-231: the de-duplication query or the commit of the
\* new Alert raises; the alert is neither stored nor published
CheckAlertFails(l) ==
    /\ loop[l].pc = "alerts"
    /\ loop[l].cands # << >>
    /\ SetLoop(l, AbortBatch(loop[l]))
    /\ UNCHANGED <<bots, metrics, readings, alerts, active_connections, ws,
                   simulation_running, now, published, delivered, fn>>

StoreFails(l) == QueryFails(l) \/ UpdateBotFails(l) \/ CheckAlertFails(l)

\* ------------------------------------------------------------ Fan-out publisher
\* send_to_patient lines 50-53: the list iterator yields its next element and
\* send_json is awaited, or the iteration ends (the index has reached the
\* current length of the list, or the patient has no entry) and the call
\* returns.  The iterator holds the list object: once disconnect_patient has
\* deleted the entry, the iterated list is the emptied one, whatever list a
\* later connect_patient stores under the key.
SendNext(l) ==
    /\ loop[l].pc = "send"
    /\ LET p == loop[l].msg.patient
           lst == IF p \in DOMAIN active_connections /\ ~loop[l].gone
                    THEN active_connections[p] ELSE << >>
       IN  IF loop[l].i < Len(lst)
             THEN SetLoop(l, [loop[l] EXCEPT !.pc = "sending", !.i = @ + 1,
                                             !.conn = lst[loop[l].i + 1]])
             ELSE SetLoop(l, [loop[l] EXCEPT !.pc = loop[l].ret, !.msg = NoMsg, !.i = 0,
                                             !.conn = 0, !.ret = "none"])
    /\ UNCHANGED <<bots, metrics, readings, alerts, active_connections, ws,
                   simulation_running, now, published, delivered, fn>>

\* send_to_patient lines 53-56: the awaited send_json completes; a failed one
\* removes the connection from the patient's list
SendDone(l) ==
    /\ loop[l].pc = "sending"
    /\ \A k \in LoopIds \ {l} : loop[k].pc \in SuspendedPcs
    /\ LET c == loop[l].conn
           p == loop[l].msg.patient
       IN  IF ws[c].state = "open"
             THEN /\ delivered' = delivered \cup
                        {[conn |-> c, type |-> loop[l].msg.type, bot |-> loop[l].msg.bot,
                          patient |-> p]}
                  /\ SetLoop(l, [loop[l] EXCEPT !.pc = "send", !.got = @ \cup {c}])
                  /\ UNCHANGED active_connections
             ELSE /\ UNCHANGED delivered
                  /\ IF p \in DOMAIN active_connections
                        /\ c \in SeqToSet(active_connections[p])
                       THEN /\ active_connections' =
                                  [active_connections EXCEPT ![p] = RemoveFirst(@, c)]
                            /\ SetLoop(l, [loop[l] EXCEPT !.pc = "send",
                                                          !.failed = @ \cup {c}])
                       ELSE /\ SetLoop(l, AbortBatch([loop[l] EXCEPT !.failed = @ \cup {c}]))
                            /\ UNCHANGED active_connections
    /\ UNCHANGED <<bots, metrics, readings, alerts, ws, simulation_running, now,
                   published, fn>>

\* a mutant of ConnectPatient: every websocket is appended to one shared list
ConnectPatientSharedList(c, p) ==
    /\ AllSuspended
    /\ ws[c].state = "new"
    /\ ws' = [ws EXCEPT ![c] = [state |-> "open", patient |-> p, disc |-> "none"]]
    /\ active_connections' =
         IF 1 \in DOMAIN active_connections
           THEN [active_connections EXCEPT ![1] = Append(@, c)]
           ELSE (1 :> << c >>) @@ active_connections
    /\ UNCHANGED <<bots, metrics, readings, alerts, simulation_running, loop, now,
                   published, delivered, fn>>

\* connect_patient lines 19-23: a new websocket is accepted and appended
ConnectPatient(c, p) ==
    /\ AllSuspended
    /\ ws[c].state = "new"
    /\ ws' = [ws EXCEPT ![c] = [state |-> "open", patient |-> p, disc |-> "none"]]
    /\ active_connections' =
         IF p \in DOMAIN active_connections
           THEN [active_connections EXCEPT ![p] = Append(@, c)]
           ELSE (p :> << c >>) @@ active_connections
    /\ UNCHANGED <<bots, metrics, readings, alerts, simulation_running, loop, now,
                   published, delivered, fn>>

\* disconnect_patient lines 31-36, called for websocket c and patient p: the
\* websocket is removed from the patient's list and an emptied list leaves the
\* registry (a websocket that is not in the list raises ValueError and changes
\* nothing).  A send_to_patient that is iterating the deleted list keeps it.
DisconnectPatient(c, p) ==
    /\ AllSuspended
    /\ ws[c].state # "new"
    /\ p \in DOMAIN active_connections
    /\ c \in SeqToSet(active_connections[p])
    /\ LET lst == RemoveFirst(active_connections[p], c)
       IN  IF lst = << >>
             THEN /\ active_connections' =
                        [q \in DOMAIN active_connections \ {p} |-> active_connections[q]]
                  /\ loop' = [l \in LoopIds |->
                                IF loop[l].pc \in {"send", "sending"} /\ loop[l].msg.patient = p
                                  THEN [loop[l] EXCEPT !.gone = TRUE] ELSE loop[l]]
             ELSE /\ active_connections' = [active_connections EXCEPT ![p] = lst]
                  /\ UNCHANGED loop
    /\ UNCHANGED <<bots, metrics, readings, alerts, ws, simulation_running, now,
                   published, delivered, fn>>

\* disconnect_patient lines 31-36, called for websocket c and the patient it
\* connected for when c is not in that patient's list: without an entry for
\* the patient the call returns; with one, list.remove raises ValueError.
\* The registry is left as it is.
DisconnectPatientUnregistered(c) ==
    /\ AllSuspended
    /\ ws[c].state # "new"
    /\ LET p == ws[c].patient
       IN  IF p \in DOMAIN active_connections
             THEN /\ c \notin SeqToSet(active_connections[p])
                  /\ ws' = [ws EXCEPT ![c].disc = "ValueError"]
             ELSE ws' = [ws EXCEPT ![c].disc = "returned"]
    /\ UNCHANGED <<bots, metrics, readings, alerts, active_connections,
                   simulation_running, loop, now, published, delivered, fn>>

\* the peer of an open websocket goes away: send_json raises from now on
ConnectionLost(c) ==
    /\ AllSuspended
    /\ ws[c].state = "open"
    /\ ws' = [ws EXCEPT ![c].state = "lost"]
    /\ UNCHANGED <<bots, metrics, readings, alerts, active_connections,
                   simulation_running, loop, now, published, delivered, fn>>

\* ------------------------------------------------------------ API requests
\* stop_simulation lines 35-38
StopSimulation ==
    /\ AllSuspended
    /\ simulation_running
    /\ simulation_running' = FALSE
    /\ UNCHANGED <<bots, metrics, readings, alerts, active_connections, ws, loop,
                   now, published, delivered, fn>>

\* startup_event lines 45-49: the application creates the one simulation task
Startup == StartSimulation(1)

\* start_simulation called again, as the next task, by a caller that follows
\* the lifecycle Stopped -> Running: the flag is clear and every earlier task
\* has been started
Restart(l) ==
    /\ l > 1
    /\ loop[l - 1].pc # "idle"
    /\ ~simulation_running
    /\ StartSimulation(l)

\* resolve_alert lines 224-235 (an unknown id is a 404 and changes nothing);
\* the model takes at most MaxResolves such requests
ResolveAlert(id) ==
    /\ AllSuspended
    /\ id \in 1..Len(alerts)
    /\ ~alerts[id].is_resolved
    /\ Cardinality({k \in 1..Len(alerts) : alerts[k].is_resolved}) < MaxResolves
    /\ alerts' = [alerts EXCEPT ![id].is_resolved = TRUE, ![id].resolved_at = now]
    /\ UNCHANGED <<bots, metrics, readings, active_connections, ws,
                   simulation_running, loop, now, published, delivered, fn>>

\* the lifecycle statuses of a sensor
Statuses == {"active", "inactive", "degraded"}

\* update_nanobot lines 184-197 with a body that sets status only (an unknown
\* bot_id is a 404 and changes nothing)
UpdateNanobot(s, st) ==
    /\ AllSuspended
    /\ bots' = [bots EXCEPT ![s].status = st, ![s].last_active = now]
    /\ UNCHANGED <<metrics, readings, alerts, active_connections, ws,
                   simulation_running, loop, now, published, delivered, fn>>

LoopStep(l, draws, maxBatches) ==
    \/ LoopWake(l, maxBatches)
    \/ LoopWhile(l)
    \/ UpdateBot(l, draws)
    \/ EndBatch(l)
    \/ CheckAlert(l)
    \/ SendBotUpdate(l)
    \/ SendNext(l)
    \/ SendDone(l)

Next ==
    \/ Startup
    \/ \E l \in LoopIds : LoopStep(l, LoopDraws, MaxBatches)
    \/ \E id \in 1..Len(alerts) : ResolveAlert(id)

Spec == Init /\ [][Next]_vars

\* ------------------------------------------------------------ SpecWalk
\* the random walk of one active sensor from the stored rows of WalkProfiles,
\* with every combination of draw directions; the other sensors are inactive
InitWalk ==
    /\ InitIdle
    /\ InitNoConnections
    /\ InitStore({[s \in Sensors |-> IF s = 1 THEN p ELSE ProfileDefault] : p \in WalkProfiles},
                 {OnlyFirstActive}, {0, 99})
    /\ fn = NoFn

WalkStep(l) ==
    \/ LoopWake(l, MaxWalkTicks)
    \/ LoopWhile(l)
    \/ UpdateBot(l, WalkDraws)
    \/ EndBatch(l)
    \/ CheckAlert(l)
    \/ SendBotUpdate(l)
    \/ SendNext(l)

NextWalk == Startup \/ \E l \in LoopIds : WalkStep(l)

SpecWalk == InitWalk /\ [][NextWalk]_vars

\* ------------------------------------------------------------ SpecNet
\* the loop with subscribers that connect and go away and with stop_simulation;
\* every sensor starts just inside its thresholds and every draw is DrawUp
InitNet ==
    /\ InitIdle
    /\ InitNoConnections
    /\ InitStore({[s \in Sensors |-> ProfileNear]}, {AllActive}, {0})
    /\ fn = NoFn

NextNet ==
    \/ Startup
    \/ \E l \in LoopIds : LoopStep(l, {DrawUp}, MaxBatches)
    \/ \E c \in Conns, p \in Patients : ConnectPatient(c, p)
    \/ \E c \in Conns : ConnectionLost(c)
    \/ StopSimulation

SpecNet == InitNet /\ [][NextNet]_vars

\* ------------------------------------------------------------ FairSpecStop
\* the loop and stop_simulation, with or without subscribers, whose peers may
\* go away.  The event loop
\* runs every task that is ready: a started loop whose sleep has elapsed or
\* whose send_json has completed takes its next step.
InitStop ==
    /\ InitIdle
    /\ InitNoConnections \/ InitAllConnected
    /\ InitStore({[s \in Sensors |-> ProfileNear]}, {AllActive}, {0})
    /\ fn = NoFn

NextStop ==
    \/ Startup
    \/ \E l \in LoopIds : LoopStep(l, {DrawUp}, MaxBatches)
    \/ \E c \in Conns : ConnectionLost(c)
    \/ StopSimulation

FairSpecStop ==
    /\ InitStop
    /\ [][NextStop]_vars
    /\ \A l \in LoopIds : WF_vars(LoopStep(l, {DrawUp}, MaxBatches))

\* ------------------------------------------------------------ FairSpecFail
\* the loop with a store that may raise at any of its uses, with no
\* subscribers, healthy ones, or one whose peer is gone, and with
\* stop_simulation; the event loop runs every task that is ready
InitFail ==
    /\ InitIdle
    /\ InitNoConnections \/ InitAllConnected \/ InitPeerGone
    /\ InitStore({[s \in Sensors |-> ProfileCardiac]}, {AllActive}, {0})
    /\ fn = NoFn

NextFail ==
    \/ Startup
    \/ \E l \in LoopIds : LoopStep(l, {DrawUp}, MaxBatches)
    \/ \E l \in LoopIds : StoreFails(l)
    \/ StopSimulation

FairSpecFail ==
    /\ InitFail
    /\ [][NextFail]_vars
    /\ \A l \in LoopIds : WF_vars(LoopStep(l, {DrawUp}, MaxBatches))

\* ------------------------------------------------------------ SpecApi
\* the loop, with a subscriber for every patient, and update_nanobot requests
\* that change the status of the sensors
InitApi ==
    /\ InitIdle
    /\ InitAllConnected
    /\ InitStore({[s \in Sensors |-> ProfileCardiac]}, {AllActive}, {0})
    /\ fn = NoFn

NextApi ==
    \/ Startup
    \/ \E l \in LoopIds : LoopStep(l, {DrawUp}, MaxBatches)
    \/ \E s \in Sensors, st \in Statuses : UpdateNanobot(s, st)

SpecApi == InitApi /\ [][NextApi]_vars

\* ------------------------------------------------------------ SpecIso
\* the loop over one active sensor, of any patient, with subscribers that
\* connect to any patient, disconnect and go away
InitIso ==
    /\ InitIdle
    /\ InitNoConnections
    /\ InitStore({[s \in Sensors |-> ProfileCardiac]}, {OneActive(a) : a \in Sensors}, {0})
    /\ fn = NoFn

NextIso ==
    \/ Startup
    \/ \E l \in LoopIds : LoopStep(l, {DrawUp}, MaxBatches)
    \/ \E c \in Conns, p \in Patients : ConnectPatient(c, p)
    \/ \E c \in Conns, p \in Patients : DisconnectPatient(c, p)
    \/ \E c \in Conns : ConnectionLost(c)

SpecIso == InitIso /\ [][NextIso]_vars

\* ------------------------------------------------------------ SpecOrphan
\* the loop over active sensors one of which has no bot_metrics row (the
\* commit of the row at create_nanobot line 159 failed after the bot was
\* committed at line 153), with resolve_alert and update_nanobot requests
InitOrphan ==
    /\ InitIdle
    /\ InitNoConnections \/ InitAllConnected
    /\ \E a \in Sensors :
          /\ bots = [s \in Sensors |-> BotRow(s, "active", 0)]
          /\ metrics = [s \in Sensors \ {a} |-> ProfileCardiac.m]
    /\ alerts = << >>
    /\ readings = << >>
    /\ fn = NoFn

NextOrphan ==
    \/ Startup
    \/ \E l \in LoopIds : LoopStep(l, LoopDraws, MaxBatches)
    \/ \E id \in 1..Len(alerts) : ResolveAlert(id)
    \/ \E s \in Sensors, st \in Statuses : UpdateNanobot(s, st)

SpecOrphan == InitOrphan /\ [][NextOrphan]_vars

\* ------------------------------------------------------------ SpecRestart
\* start, stop and start again: the loops of one simulator over one active
\* sensor whose patient has a subscriber
InitRestart ==
    /\ InitIdle
    /\ InitAllConnected
    /\ InitStore({[s \in Sensors |-> ProfileCardiac]}, {OnlyFirstActive}, {0})
    /\ fn = NoFn

NextRestart ==
    \/ Startup
    \/ \E l \in LoopIds : Restart(l)
    \/ \E l \in LoopIds : LoopStep(l, {DrawUp}, MaxBatches)
    \/ StopSimulation

SpecRestart == InitRestart /\ [][NextRestart]_vars

\* ------------------------------------------------------------ SpecDisc
\* the loop over one active sensor with subscribers that connect, go away and
\* are disconnected, also when they are registered no more
InitDisc ==
    /\ InitIdle
    /\ InitNoConnections
    /\ InitStore({[s \in Sensors |-> ProfileCardiac]}, {OnlyFirstActive}, {0})
    /\ fn = NoFn

NextDisc ==
    \/ Startup
    \/ \E l \in LoopIds : LoopStep(l, {DrawUp}, MaxBatches)
    \/ \E c \in Conns, p \in Patients : ConnectPatient(c, p)
    \/ \E c \in Conns : DisconnectPatient(c, ws[c].patient)
    \/ \E c \in Conns : DisconnectPatientUnregistered(c)
    \/ \E c \in Conns : ConnectionLost(c)

SpecDisc == InitDisc /\ [][NextDisc]_vars

\* ------------------------------------------------------------ SpecFn
\* the pure functions of update_bot and check_alerts on metric values around
\* every threshold, inside and outside the clamp domains
FnInputs ==
    {[DefaultMetrics EXCEPT !.glucose = g, !.heart_rate = h, !.temperature = t,
                            !.troponin = tr, !.oxygen = o] :
        g \in {65, 69, 70, 75, 95, 120, 121, 140, 141, 180, 181, 190},
        h \in {45, 49, 50, 72, 90, 91, 95, 100, 101},
        t \in {359, 360, 366, 378, 379},
        tr \in {10, 40, 41, 50},
        o \in {870, 879, 880, 919, 920, 980}}

InitFn ==
    /\ InitIdle
    /\ InitNoConnections
    /\ InitStore({[s \in Sensors |-> ProfileDefault]}, {AllActive}, {0})
    /\ \E m \in FnInputs : fn = [NoFn EXCEPT !.m = m]

\* update_bot lines 93-118 applied to fn.m
ApplyScore ==
    /\ fn.score = 0 - 1
    /\ fn' = [fn EXCEPT !.score = Score(fn.m).health_score,
                        !.risk = Score(fn.m).risk_level]
    /\ UNCHANGED <<bots, metrics, readings, alerts, active_connections, ws,
                   simulation_running, loop, now, published, delivered>>

\* check_alerts lines 153-209 applied to fn.m
ApplyCheckAlerts ==
    /\ ~fn.checked
    /\ fn' = [fn EXCEPT !.cands = AlertCandidates(fn.m), !.checked = TRUE]
    /\ UNCHANGED <<bots, metrics, readings, alerts, active_connections, ws,
                   simulation_running, loop, now, published, delivered>>

NextFn == ApplyScore \/ ApplyCheckAlerts

SpecFn == InitFn /\ [][NextFn]_vars

\* ------------------------------------------------------------ properties
AlertMetrics == {"glucose", "heart_rate", "troponin", "oxygen"}

UnresolvedOf(tbl, s, m) ==
    {k \in 1..Len(tbl) : tbl[k].bot_id = s /\ tbl[k].metric = m /\ ~tbl[k].is_resolved}

ResolvedOf(tbl, s, m) ==
    {k \in 1..Len(tbl) : tbl[k].bot_id = s /\ tbl[k].metric = m /\ tbl[k].is_resolved}

AlertEvents(log, s, m) ==
    {k \in 1..Len(log) : log[k].type = "alert" /\ log[k].bot = s /\ log[k].metric = m}

\* C1: in every reachable state, under any interleaving of ticks and
\* resolve_alert requests, each (sensor, metric) pair has at most one Alert
\* with is_resolved = false.
C1_AtMostOneUnresolved ==
    \A s \in Sensors, m \in AlertMetrics : Cardinality(UnresolvedOf(alerts, s, m)) <= 1

\* C1's case: a second batch has run on a metric that still breaches, an
\* earlier alert of the pair was resolved and a later one is open
C1_Witness ==
    \E s \in Sensors, l \in LoopIds :
        /\ loop[l].nbatch >= 2
        /\ metrics[s].troponin > 40
        /\ ResolvedOf(alerts, s, "troponin") # {}
        /\ UnresolvedOf(alerts, s, "troponin") # {}

\* the check_alerts step of loop l that handles the candidate at the head of
\* its list
HandlesCandidate(l) ==
    /\ loop[l].pc = "alerts"
    /\ loop[l].cands # << >>
    /\ loop'[l] # loop[l]

\* C2: when check_alerts handles a candidate for metric m of sensor s and an
\* unresolved Alert of (s, m) exists, the step inserts no Alert row and
\* publishes no alert event.
C2_DuplicateSuppressed ==
    [][\A l \in LoopIds :
         (HandlesCandidate(l)
          /\ UnresolvedOf(alerts, loop[l].bot, Head(loop[l].cands).metric) # {})
         => (alerts' = alerts /\ published' = published)]_vars

\* C2's case: the second batch has processed a sensor whose troponin is still
\* above 0.04; its alert of the first batch is open and the batch published
\* no alert event for it
C2_Witness ==
    \E s \in Sensors, l \in LoopIds :
        /\ loop[l].nbatch = 2
        /\ loop[l].pc = "sleep"
        /\ metrics[s].troponin > 40
        /\ \E k \in 1..Len(published) : published[k].type = "bot_update" /\ published[k].bot = s
        /\ AlertEvents(published, s, "troponin") = {}
        /\ Cardinality(UnresolvedOf(alerts, s, "troponin")) = 1

\* C3: after resolve_alert has resolved the Alert of (s, m), the tick of s whose
\* check_alerts finds m breaching (and no unresolved Alert of the pair) creates
\* exactly one new unresolved Alert of (s, m) and publishes exactly one alert
\* event for it.
C3_RecreatedAfterResolve ==
    [][\A l \in LoopIds :
         LET s == loop[l].bot
             m == Head(loop[l].cands).metric
         IN  (HandlesCandidate(l)
              /\ ResolvedOf(alerts, s, m) # {}
              /\ UnresolvedOf(alerts, s, m) = {})
             => /\ Len(alerts') = Len(alerts) + 1
                /\ SubSeq(alerts', 1, Len(alerts)) = alerts
                /\ UnresolvedOf(alerts', s, m) = {Len(alerts')}
                /\ Len(published') = Len(published) + 1
                /\ SubSeq(published', 1, Len(published)) = published
                /\ AlertEvents(published', s, m) = AlertEvents(published, s, m)
                                                    \cup {Len(published')}]_vars

\* C3's case: an Alert was resolved and a later tick has created and published
\* the new one of the same pair
C3_Witness ==
    \E s \in Sensors, m \in AlertMetrics :
        /\ ResolvedOf(alerts, s, m) # {}
        /\ \E k \in UnresolvedOf(alerts, s, m) : \A j \in ResolvedOf(alerts, s, m) : j < k
        /\ AlertEvents(published, s, m) # {}

InClampDomain(m) ==
    /\ m.glucose \in 70..180
    /\ m.heart_rate \in 60..100
    /\ m.temperature \in 360..380
    /\ m.troponin \in 0..100
    /\ m.oxygen \in 900..1000
    /\ m.ph_level \in 735..745
    /\ m.blood_pressure_sys \in 100..140
    /\ m.blood_pressure_dia \in 60..90

Ticked(s) == bots[s].last_active > 0

\* C4: after any number of ticks of a sensor, every stored metric lies in its
\* clamp domain and each position axis of the ticked sensor lies in [0,100].
C4_ClampDomains ==
    \A s \in Sensors :
        Ticked(s) => /\ InClampDomain(metrics[s])
                     /\ bots[s].current_x \in 0..100
                     /\ bots[s].current_y \in 0..100

\* C4's case: a sensor ticked twice whose walk ran into the upper clamps of its
\* metrics and into the lower clamp of its x axis
C4_Witness ==
    \E s \in Sensors :
        /\ Ticked(s)
        /\ loop[1].nbatch = 2
        /\ metrics[s].glucose = 180
        /\ metrics[s].ph_level = 745
        /\ bots[s].current_x = 0
        /\ bots[s].current_y = 4

\* the risk tiers as the specification states them
RiskTier(score) ==
    CASE score < 50 -> "Critical"
      [] score >= 50 /\ score < 70 -> "High"
      [] score >= 70 /\ score < 85 -> "Moderate"
      [] score >= 85 -> "Low"

\* C5: after every tick the stored health_score is an integer in [0,100] and
\* the stored risk_level is the tier of that score (49 is Critical, 50 is High).
C5_ScoreAndRisk ==
    \A s \in Sensors :
        Ticked(s) => /\ metrics[s].health_score \in 0..100
                     /\ metrics[s].risk_level = RiskTier(metrics[s].health_score)

\* C5's case: a tick stored the boundary score 50 with risk High
C5_Witness ==
    \E s \in Sensors :
        Ticked(s) /\ metrics[s].health_score = 50 /\ metrics[s].risk_level = "High"

\* the penalty of one metric group, first match wins
GlucosePenalty(m) == IF m.glucose > 140 THEN 15 ELSE IF m.glucose > 120 THEN 5 ELSE 0
HeartRatePenalty(m) == IF m.heart_rate > 90 THEN 10 ELSE IF m.heart_rate < 50 THEN 15 ELSE 0
TemperaturePenalty(m) == IF m.temperature > 378 THEN 10 ELSE IF m.temperature < 360 THEN 5 ELSE 0
TroponinPenalty(m) == IF m.troponin > 40 THEN 30 ELSE 0
OxygenPenalty(m) == IF m.oxygen < 920 THEN 20 ELSE 0

Nominal(m, fields) ==
    \A f \in {"glucose", "heart_rate", "temperature", "troponin", "oxygen"} \ fields :
        m[f] = DefaultMetrics[f]

\* C6: for every metrics value the computed health_score is max(0, 100 minus
\* the sum of one penalty per metric group); heart_rate = 95 with the other
\* metrics nominal scores 90 with risk Low.
C6_ScoreIsPenaltySum ==
    fn.score # 0 - 1 =>
        /\ fn.score = Max(0, 100 - SeqSum(<<GlucosePenalty(fn.m), HeartRatePenalty(fn.m),
                                            TemperaturePenalty(fn.m), TroponinPenalty(fn.m),
                                            OxygenPenalty(fn.m)>>))
        /\ (fn.m.heart_rate = 95 /\ Nominal(fn.m, {"heart_rate"}))
              => (fn.score = 90 /\ fn.risk = "Low")

\* C6's case: the scenario heart_rate = 95 has been scored
C6_Witness ==
    /\ fn.m.heart_rate = 95
    /\ Nominal(fn.m, {"heart_rate"})
    /\ fn.score = 90

\* the rule table of the alert evaluator: (metric, severity, threshold)
RuleTable(m) ==
    {r \in [metric : AlertMetrics, type : {"critical", "warning"},
            threshold : {140, 70, 100, 50, 40, 920}] :
        \/ /\ r.metric = "glucose" /\ m.glucose > 140 /\ r.threshold = 140
           /\ r.type = IF m.glucose > 180 THEN "critical" ELSE "warning"
        \/ r.metric = "glucose" /\ m.glucose < 70 /\ r.threshold = 70 /\ r.type = "warning"
        \/ r.metric = "heart_rate" /\ m.heart_rate > 100 /\ r.threshold = 100 /\ r.type = "critical"
        \/ r.metric = "heart_rate" /\ m.heart_rate < 50 /\ r.threshold = 50 /\ r.type = "critical"
        \/ r.metric = "troponin" /\ m.troponin > 40 /\ r.threshold = 40 /\ r.type = "critical"
        \/ /\ r.metric = "oxygen" /\ m.oxygen < 920 /\ r.threshold = 920
           /\ r.type = IF m.oxygen < 880 THEN "critical" ELSE "warning"}

CandidateRules(cands) ==
    {[metric |-> cands[k].metric, type |-> cands[k].type, threshold |-> cands[k].threshold] :
        k \in 1..Len(cands)}

\* C7: for every metrics value the candidates of check_alerts are exactly those
\* of the rule table, at most one per metric; glucose = 190 gives a critical
\* alert with threshold 140 and glucose = 75 gives none.
C7_CandidatesAreRuleTable ==
    fn.checked =>
        /\ CandidateRules(fn.cands) = RuleTable(fn.m)
        /\ \A j, k \in 1..Len(fn.cands) : fn.cands[j].metric = fn.cands[k].metric => j = k
        /\ \A k \in 1..Len(fn.cands) : fn.cands[k].value = fn.m[fn.cands[k].metric]
        /\ fn.m.glucose = 190 =>
              [metric |-> "glucose", type |-> "critical", threshold |-> 140]
                  \in CandidateRules(fn.cands)
        /\ fn.m.glucose = 75 =>
              \A k \in 1..Len(fn.cands) : fn.cands[k].metric # "glucose"

\* C7's case: glucose = 190 was evaluated and its critical alert co-occurs with
\* candidates of every other metric
C7_Witness ==
    /\ fn.checked
    /\ fn.m.glucose = 190
    /\ Len(fn.cands) = 4

\* the send_to_patient call of loop l has returned to its caller
SendReturned(l) == loop[l].pc \notin {"send", "sending"}

\* C8: when the send to one subscriber fails, every other subscriber that was
\* registered when send_to_patient was called and whose own send would succeed
\* has received the message when the call returns.
C8_OthersStillReceive ==
    \A l \in LoopIds :
        (SendReturned(l) /\ loop[l].failed # {}) =>
            \A c \in SeqToSet(loop[l].start) \ loop[l].failed :
                ws[c].state = "open" => c \in loop[l].got

\* C9: once stop_simulation has returned, no bot_update message is published.
C9_NoUpdateAfterStop ==
    [][~simulation_running =>
         ~(/\ Len(published') = Len(published) + 1
           /\ published'[Len(published')].type = "bot_update")]_vars

Stopped(l) == ~simulation_running /\ loop[l].pc # "idle"

\* C10: after stop_simulation on a running loop the loop begins no new batch
\* and eventually leaves its sleep or iteration and exits.
C10_StopExits ==
    /\ [][\A l \in LoopIds : Stopped(l) => loop'[l].nbatch = loop[l].nbatch]_vars
    /\ \A l \in LoopIds : Stopped(l) ~> (loop[l].pc = "done")

\* C10's case: stop_simulation was called while the loop was suspended in a
\* send_json of its first batch, and the loop has exited without a second batch
C10_Witness ==
    \E l \in LoopIds :
        /\ loop[l].pc = "done"
        /\ loop[l].nbatch = 1
        /\ ~simulation_running
        /\ delivered # {}

\* a bot_update of sensor s is among the messages of the current batch
UpdatePublished(s) ==
    \E k \in 1..Len(published) : published[k].type = "bot_update" /\ published[k].bot = s

\* C11: while the flag is set no failure of a tick ends the loop: the loop
\* exits only with the flag cleared, and a loop that sleeps after a batch that
\* caught a failure comes back to its while test, whose next step with the
\* flag set begins a further batch, unless stop_simulation intervenes.
C11_FailureNeverEndsLoop ==
    /\ [](\A l \in LoopIds : loop[l].pc = "done" => ~simulation_running)
    /\ [][\A l \in LoopIds :
            (loop[l].pc = "while" /\ simulation_running /\ loop'[l] # loop[l])
                => loop'[l].nbatch = loop[l].nbatch + 1]_vars
    /\ \A l \in LoopIds :
          (/\ loop[l].caught # "none"
           /\ loop[l].pc = "sleep"
           /\ loop[l].nbatch < MaxBatches
           /\ simulation_running)
              ~> (loop[l].pc = "while" \/ ~simulation_running)

\* C11's case: the first batch failed before sensor 1 was stored (its troponin
\* has moved one draw, not two) and the second batch ran to its end
C11_Witness ==
    \E l \in LoopIds :
        /\ simulation_running
        /\ loop[l].nbatch = 2
        /\ loop[l].pc = "sleep"
        /\ loop[l].caught = "none"
        /\ bots[1].last_active = now
        /\ metrics[1].troponin = ProfileCardiac.m.troponin + DrawUp.troponin

\* C12: after a batch that raised, the loop sleeps the back-off of 5 time
\* units before the next batch, not the tick interval of 2.
C12_BackOffAfterFailure ==
    \A l \in LoopIds :
        (loop[l].pc = "sleep" /\ loop[l].caught # "none") => loop[l].sleep = 5

\* C13: when the update of one sensor of a batch raised, every other sensor
\* fetched for the batch has been updated and has its bot_update when the
\* batch is over.
C13_OthersStillUpdated ==
    \A l \in LoopIds :
        (loop[l].pc = "sleep" /\ loop[l].errbot # 0) =>
            \A s \in SeqToSet(loop[l].fetched) \ {loop[l].errbot} :
                bots[s].last_active = now /\ UpdatePublished(s)

\* C14: no step of the simulation changes the metrics, the position or the
\* last-active timestamp of a sensor whose status is not active at that step.
C14_NoMutationWhileInactive ==
    [][\A s \in Sensors :
         (\/ metrics'[s] # metrics[s]
          \/ bots'[s].current_x # bots[s].current_x
          \/ bots'[s].current_y # bots[s].current_y
          \/ (loop' # loop /\ bots'[s].last_active # bots[s].last_active))
         => bots[s].status = "active"]_vars

\* the bot_update messages of sensor s among the messages of the current batch
UpdatesOf(s) ==
    {k \in 1..Len(published) : published[k].type = "bot_update" /\ published[k].bot = s}

\* C15: the query of a batch returns exactly the sensors whose status is
\* active, and when a batch ends without a failure it has published exactly
\* one bot_update for each of them and none for any other sensor.
C15_OneUpdatePerActiveSensor ==
    /\ [][\A l \in LoopIds :
            (loop[l].pc = "while" /\ loop'[l].pc = "for")
                => SeqToSet(loop'[l].fetched) = {s \in Sensors : bots[s].status = "active"}]_vars
    /\ [](\A l \in LoopIds :
            (loop[l].pc = "sleep" /\ loop[l].nbatch > 0 /\ loop[l].caught = "none")
                => \A s \in Sensors :
                     Cardinality(UpdatesOf(s)) =
                         IF s \in SeqToSet(loop[l].fetched) THEN 1 ELSE 0)

\* C15's case: the second batch fetched sensor 1 only, sensor 2 being inactive,
\* and ended with one bot_update of sensor 1 and none of sensor 2
C15_Witness ==
    \E l \in LoopIds :
        /\ loop[l].pc = "sleep"
        /\ loop[l].nbatch = 2
        /\ loop[l].caught = "none"
        /\ loop[l].fetched = << 1 >>
        /\ bots[2].status = "inactive"
        /\ Cardinality(UpdatesOf(1)) = 1
        /\ UpdatesOf(2) = {}

\* C16: every message a websocket accepted is a message of a sensor whose
\* owner is the patient the websocket registered under, whatever connects,
\* disconnects, prunes and ticks came before.
C16_DeliveredToOwnGroupOnly ==
    \A d \in delivered :
        /\ d.patient = bots[d.bot].patient_id
        /\ ws[d.conn].patient = d.patient

\* C16's case: both patients have had a subscriber, a subscriber was pruned
\* or disconnected, and alert and bot_update messages were delivered
C16_Witness ==
    /\ \A c \in Conns : ws[c].state # "new"
    /\ \E c1, c2 \in Conns : ws[c1].patient # ws[c2].patient
    /\ \E c \in Conns : \A p \in DOMAIN active_connections :
                            c \notin SeqToSet(active_connections[p])
    /\ \E d \in delivered : d.type = "alert"
    /\ \E d \in delivered : d.type = "bot_update"

PublishesUpdate(l) ==
    /\ loop[l].pc = "alerts"
    /\ Len(published') = Len(published) + 1
    /\ published'[Len(published')].type = "bot_update"

\* C18: within a sensor's tick, check_alerts examines the metrics that were
\* committed for the tick; an alert event is published only with its Alert
\* stored; and the bot_update is published after every candidate of the tick
\* was handled, so that no alert event of the sensor follows its bot_update.
C18_TickOrder ==
    /\ [][\A l \in LoopIds :
            HandlesCandidate(l) =>
                LET s == loop[l].bot
                    a == Head(loop[l].cands)
                IN  /\ a.value = metrics[s][a.metric]
                    /\ bots[s].last_active = now
                    /\ (published' # published =>
                           /\ published'[Len(published')].type = "alert"
                           /\ UnresolvedOf(alerts', s, a.metric) = {Len(alerts')})]_vars
    /\ [][\A l \in LoopIds :
            PublishesUpdate(l) =>
                /\ loop[l].cands = << >>
                /\ published'[Len(published')].bot = loop[l].bot
                /\ bots[loop[l].bot].last_active = now]_vars
    /\ [](\A j, k \in 1..Len(published) :
            (j < k /\ published[j].bot = published[k].bot /\ published[j].type = "bot_update")
                => published[k].type # "alert")

\* C18's case: a tick has published two alert events of a sensor and then its
\* bot_update, all delivered to the patient's subscriber
C18_Witness ==
    \E s \in Sensors :
        /\ Len(published) >= 3
        /\ \E k \in 3..Len(published) :
              /\ published[k].type = "bot_update" /\ published[k].bot = s
              /\ published[k - 1].type = "alert" /\ published[k - 1].bot = s
              /\ published[k - 2].type = "alert" /\ published[k - 2].bot = s
        /\ \E d \in delivered : d.bot = s /\ d.type = "bot_update"

\* the subscriber group of patient p
Group(p) ==
    IF p \in DOMAIN active_connections THEN SeqToSet(active_connections[p]) ELSE {}

\* C19: when send_to_patient has returned, every connection whose send_json
\* failed in the call is out of the patient's group, and every other
\* connection that was in the group when the call began is still in it.
C19_PrunedExactlyFailed ==
    \A l \in LoopIds :
        (SendReturned(l) /\ loop[l].caught = "none") =>
            /\ \A c \in loop[l].failed : c \notin Group(ws[c].patient)
            /\ \A c \in SeqToSet(loop[l].start) \ loop[l].failed : c \in Group(ws[c].patient)

\* C19's case: a call with two subscribers has returned, the send to one
\* succeeded and the send to the other failed
C19_Witness ==
    \E l \in LoopIds :
        /\ SendReturned(l)
        /\ Len(loop[l].start) = 2
        /\ loop[l].got # {}
        /\ loop[l].failed # {}

\* the metrics are within one perturbation of the column defaults
WithinOneStep(m) ==
    /\ m.glucose \in (DefaultMetrics.glucose - 3)..(DefaultMetrics.glucose + 3)
    /\ m.heart_rate \in (DefaultMetrics.heart_rate - 2)..(DefaultMetrics.heart_rate + 2)
    /\ m.temperature \in (DefaultMetrics.temperature - 1)..(DefaultMetrics.temperature + 1)
    /\ m.troponin \in (DefaultMetrics.troponin - 2)..(DefaultMetrics.troponin + 2)
    /\ m.oxygen \in (DefaultMetrics.oxygen - 5)..(DefaultMetrics.oxygen + 5)
    /\ m.ph_level \in (DefaultMetrics.ph_level - 2)..(DefaultMetrics.ph_level + 2)
    /\ m.blood_pressure_sys \in (DefaultMetrics.blood_pressure_sys - 3)..(DefaultMetrics.blood_pressure_sys + 3)
    /\ m.blood_pressure_dia \in (DefaultMetrics.blood_pressure_dia - 2)..(DefaultMetrics.blood_pressure_dia + 2)

\* C20: the update_bot step of an active sensor without a bot_metrics row
\* stores a row within one perturbation of the defaults and goes on to the
\* alert check and the bot_update of the sensor.
C20_MissingRowCreated ==
    [][\A l \in LoopIds :
         (/\ loop[l].pc = "for"
          /\ loop[l].batch # << >>
          /\ Head(loop[l].batch) \notin DOMAIN metrics
          /\ loop'[l] # loop[l])
         => /\ Head(loop[l].batch) \in DOMAIN metrics'
            /\ WithinOneStep(metrics'[Head(loop[l].batch)])
            /\ loop'[l].pc = "alerts"
            /\ loop'[l].caught = "none"]_vars

\* C21: the query for an unresolved Alert of (sensor, metric) and the insert
\* are one uninterrupted step: the step inserts exactly when the table holds
\* no unresolved Alert of the pair, and with two loops ticking the same sensor
\* every pair still has at most one unresolved Alert.
C21_AtomicCheckThenInsert ==
    /\ [][\A l \in LoopIds :
            HandlesCandidate(l) =>
                LET s == loop[l].bot
                    m == Head(loop[l].cands).metric
                IN  IF UnresolvedOf(alerts, s, m) = {}
                      THEN /\ Len(alerts') = Len(alerts) + 1
                           /\ UnresolvedOf(alerts', s, m) = {Len(alerts')}
                      ELSE alerts' = alerts]_vars
    /\ [](\A s \in Sensors, m \in AlertMetrics :
            Cardinality(UnresolvedOf(alerts, s, m)) <= 1)

\* C21's case: two loops are suspended in sends of the same sensor's tick, the
\* first in the alert event of the Alert it inserted, the second, which found
\* that Alert, in its bot_update
C21_Witness ==
    \E l, k \in LoopIds :
        /\ loop[l].pc = "sending" /\ loop[l].msg.type = "alert"
        /\ loop[k].pc = "sending" /\ loop[k].msg.type = "bot_update"
        /\ loop[l].bot = loop[k].bot
        /\ Cardinality(UnresolvedOf(alerts, loop[l].bot, loop[l].msg.metric)) = 1

\* C22: once start_simulation has been called again, no loop of an earlier
\* call begins a further batch, so that at most one loop executes batches.
C22_OneLoopTicking ==
    [][\A l, k \in LoopIds :
         (l < k /\ loop[k].pc # "idle") => loop'[l].nbatch = loop[l].nbatch]_vars

\* C23: every patient with an entry in active_connections has a subscriber.
C23_NoEmptyGroup ==
    \A p \in DOMAIN active_connections : active_connections[p] # << >>

\* C24: disconnect_patient for a websocket that is no longer in its patient's
\* list raises no error.
C24_DisconnectUnregisteredIsSilent ==
    \A c \in Conns : ws[c].disc # "ValueError"

\* C25: on the random walk from the default metrics no Alert of heart_rate
\* and no low-glucose Alert (threshold 70) is ever created, every glucose or
\* oxygen Alert is a warning, and the only critical Alerts are of troponin.
C25_OnlyTroponinCritical ==
    \A k \in 1..Len(alerts) :
        /\ alerts[k].metric # "heart_rate"
        /\ ~(alerts[k].metric = "glucose" /\ alerts[k].threshold = 70)
        /\ alerts[k].metric \in {"glucose", "oxygen"} => alerts[k].alert_type = "warning"
        /\ alerts[k].alert_type = "critical" => alerts[k].metric = "troponin"

\* C25's case: two ticks took a sensor over its glucose, troponin and oxygen
\* thresholds and its heart rate above 90, and the three Alerts were created
C25_Witness ==
    /\ loop[1].nbatch = 2
    /\ loop[1].pc = "sleep"
    /\ metrics[1].heart_rate = 93
    /\ Len(alerts) = 3
    /\ \E k \in 1..3 : alerts[k].metric = "glucose" /\ alerts[k].alert_type = "warning"
                        /\ alerts[k].threshold = 140
    /\ \E k \in 1..3 : alerts[k].metric = "oxygen" /\ alerts[k].alert_type = "warning"
    /\ \E k \in 1..3 : alerts[k].metric = "troponin" /\ alerts[k].alert_type = "critical"

\* the update_bot step of loop l on sensor s
UpdatesBot(l, s) ==
    /\ loop[l].pc = "for"
    /\ loop[l].batch # << >>
    /\ Head(loop[l].batch) = s
    /\ loop'[l] # loop[l]

\* the check_alerts steps of loop l in the tick of sensor s
ChecksAlertsOf(l, s) ==
    /\ loop[l].pc = "alerts"
    /\ loop[l].bot = s
    /\ loop'[l] # loop[l]

IsPrefix(a, b) == Len(a) <= Len(b) /\ SubSeq(b, 1, Len(a)) = a

\* C26: a tick of sensor s changes only s's metrics row, s's position and s's
\* last_active, appends at most one Reading and only Alerts of s; s's status,
\* battery level, firmware version and patient reference, and the metrics,
\* position and status of every other sensor, stay as they were.
C26_TickFrame ==
    [][\A l \in LoopIds, s \in Sensors :
         /\ UpdatesBot(l, s) =>
               /\ \A t \in Sensors \ {s} : bots'[t] = bots[t]
               /\ \A t \in DOMAIN metrics \ {s} : metrics'[t] = metrics[t]
               /\ DOMAIN metrics' = DOMAIN metrics
               /\ bots'[s].status = bots[s].status
               /\ bots'[s].battery_level = bots[s].battery_level
               /\ bots'[s].firmware_version = bots[s].firmware_version
               /\ bots'[s].patient_id = bots[s].patient_id
               /\ IsPrefix(readings, readings')
               /\ Len(readings') <= Len(readings) + 1
               /\ \A k \in (Len(readings) + 1)..Len(readings') : readings'[k].bot_id = s
               /\ alerts' = alerts
         /\ ChecksAlertsOf(l, s) =>
               /\ bots' = bots
               /\ metrics' = metrics
               /\ readings' = readings
               /\ IsPrefix(alerts, alerts')
               /\ \A k \in (Len(alerts) + 1)..Len(alerts') : alerts'[k].bot_id = s]_vars

\* C26's case: two ticks of sensor 1 moved it, saved a Reading and created
\* Alerts of it, beside a second sensor whose rows are as stored
C26_Witness ==
    /\ loop[1].nbatch = 2
    /\ bots[1].last_active > 0
    /\ bots[1].current_x # bots[1].current_y
    /\ bots[1].status = "active" /\ bots[1].battery_level = 100
    /\ metrics[1] # metrics[2]
    /\ bots[2].last_active = 0
    /\ \E k \in 1..Len(readings) : readings[k].bot_id = 1
    /\ Len(alerts) >= 2
    /\ \A k \in 1..Len(alerts) : alerts[k].bot_id = 1

====
